---- MODULE Spec2Model ----
(***************************************************************************)
(* Model of network_diag.py: main() dispatching one scan (ping sweep, TCP  *)
(* port scan, HTTP check), each scan fanning its targets out over a        *)
(* concurrent.futures.ThreadPoolExecutor and collecting the futures with   *)
(* as_completed.                                                           *)
(*                                                                         *)
(* The main thread and the pool's worker threads are interleaved one       *)
(* statement group at a time.  Worker threads are anonymous: the model     *)
(* keeps how many of them are at each position of the library's worker     *)
(* loop, and which futures are being run.                                  *)
(***************************************************************************)
EXTENDS Integers, Sequences, FiniteSets, TLC

\* ------------------------------------------------------------------ bounds
MaxTargets == 3        \* longest target list tried
MaxWorkers == 2        \* largest --workers tried
MaxSpecLen == 4        \* longest --ports string tried
MaxReleases == 4       \* release directories under /opt/myapp/releases

\* --------------------------------------------------------------- constants
EXIT_OK == 0
EXIT_ERROR == 1
EXIT_INTERRUPTED == 130
HTTP_ERROR_FLOOR == 400      \* accessible = resp.status_code < 400
IPV4_BITS == 32              \* ipaddress.ip_network of an IPv4 literal

Commands == {"ping-sweep", "port-scan", "http-check"}
\* the status of the responses in a run of main (check_http_url is applied
\* to the other statuses on its own, see ResponseCodes)
HttpStatuses == {200}

VARIABLES
    command,        \* args.command
    args,           \* the other parsed command-line arguments
    targets,        \* hosts / ports / urls handed to the scan, in input order
    max_workers,    \* args.workers
    pc,             \* position of the main thread
    resolved,       \* port_scan: "none" | "ok" | "failed" (gethostbyname)
    futures,        \* futures created by executor.submit, in submission order
    future_map,     \* future_map[f]: the target the scan keyed future f with
    work_queue,     \* executor._work_queue: futures not yet taken by a worker
    idle_semaphore, \* executor._idle_semaphore
    polling,        \* worker threads about to call work_queue.get_nowait()
    blocked,        \* worker threads blocked in work_queue.get(block=True)
    running,        \* futures whose probe has started and not yet returned
    exited,         \* worker threads that have returned
    shutdown,       \* executor._shutdown
    yielded,        \* futures as_completed has already yielded
    results,        \* live_hosts / open_ports / results of the scan
    invoked,        \* invoked[f]: how many times the probe of f was called
    handled,        \* handled[f]: how many times the collector handled f
    attributed,     \* pairs <<f, t>>: the collector named target t for future f
    exc,            \* exception propagating in the main thread, or "none"
    intr_at,        \* where the main thread was when the interrupt arrived
    printed,        \* lines main has printed
    status,         \* main's return value, -1 while it has not returned
    fn_name,        \* the function applied on its own, "none" in a run of main
    fn_in,          \* its argument
    fn_out,         \* what it returned, <<>> before the call
    releases,       \* deploy.py: the directories under RELEASES_DIR
    current,        \* CURRENT_LINK: {} (no such link) or {its target}
    previous,       \* PREVIOUS_LINK: {} (no such link) or {its target}
    dpc,            \* position of the deploy script, "off" when it is not run
    old_target,     \* update_symlinks: {} or {old_target}
    new_release,    \* update_symlinks: {} or {new_release}
    pruned,         \* release directories that were removed by hand
    previous_target,\* rollback.py rollback: {} or {previous_target}
    current_target, \* rollback: {} or {current_target}
    runs            \* the last two runs of the scripts, and the links they found

vars == <<command, args, targets, max_workers, pc, resolved, futures, future_map,
          work_queue, idle_semaphore, polling, blocked, running, exited,
          shutdown, yielded, results, invoked, handled, attributed, exc,
          intr_at, printed, status, fn_name, fn_in, fn_out, releases, current,
          previous, dpc, old_target, new_release, pruned, previous_target,
          current_target, runs>>

N == Len(targets)
NoStatus == 0 - 1

\* ------------------------------------------------------------------- text
\* A string is a sequence of one-character strings.
Range(s) == {s[i] : i \in 1..Len(s)}

DigitChars == <<"0", "1", "2", "3", "4", "5", "6", "7", "8", "9">>
Digits == Range(DigitChars)
Whitespace == {" "}

DigitValue(c) == (CHOOSE i \in 1..Len(DigitChars) : DigitChars[i] = c) - 1

\* str(n) of a natural number, and of any integer
RECURSIVE NatStr(_)
NatStr(n) ==
    IF n < 10 THEN <<DigitChars[n + 1]>>
    ELSE NatStr(n \div 10) \o <<DigitChars[(n % 10) + 1]>>

IntStr(n) == IF n < 0 THEN <<"-">> \o NatStr(0 - n) ELSE NatStr(n)

\* s.strip()
RECURSIVE StripLeft(_)
StripLeft(s) ==
    IF s # <<>> /\ Head(s) \in Whitespace THEN StripLeft(Tail(s)) ELSE s

RECURSIVE StripRight(_)
StripRight(s) ==
    IF s # <<>> /\ s[Len(s)] \in Whitespace
    THEN StripRight(SubSeq(s, 1, Len(s) - 1)) ELSE s

Strip(s) == StripRight(StripLeft(s))

\* the position of the first sep in s, 0 if there is none
FirstIndex(s, sep) ==
    IF sep \in Range(s)
    THEN CHOOSE i \in 1..Len(s) : s[i] = sep /\ \A j \in 1..(i - 1) : s[j] # sep
    ELSE 0

\* s.split(sep): the pieces between the separators, empty ones included
RECURSIVE Split(_, _)
Split(s, sep) ==
    LET k == FirstIndex(s, sep) IN
    IF k = 0 THEN <<s>>
    ELSE <<SubSeq(s, 1, k - 1)>> \o Split(SubSeq(s, k + 1, Len(s)), sep)

RECURSIVE DigitsValue(_)
DigitsValue(d) ==
    IF d = <<>> THEN 0
    ELSE 10 * DigitsValue(SubSeq(d, 1, Len(d) - 1)) + DigitValue(d[Len(d)])

\* int(s): surrounding whitespace and one sign are accepted; anything else
\* but decimal digits raises ValueError
IntOf(s) ==
    LET t == Strip(s)
        signed == t # <<>> /\ Head(t) \in {"-", "+"}
        d == IF signed THEN Tail(t) ELSE t
    IN  IF d # <<>> /\ Range(d) \subseteq Digits
        THEN [ok |-> TRUE,
              value |-> IF signed /\ Head(t) = "-" THEN 0 - DigitsValue(d)
                        ELSE DigitsValue(d)]
        ELSE [ok |-> FALSE, value |-> 0]

\* list(range(lo, hi + 1))
RangeList(lo, hi) == [i \in 1..(hi - lo + 1) |-> lo + i - 1]

\* sorted(set(xs)) of a list of integers
Ascending(S) ==
    [i \in 1..Cardinality(S) |->
        CHOOSE x \in S : Cardinality({y \in S : y <= x}) = i]

\* (a value bound by "\in {e}" is computed once, however often it is used)
SortedSet(xs) == CHOOSE sorted \in {Ascending(S) : S \in {Range(xs)}} : TRUE

\* ------------------------------------------------------------- parse_ports
\* (a parse_ports that does not reorder the endpoints of a reversed range)
PortsOfStrippedNoSwap(part) ==
    LET k == FirstIndex(part, "-")
    IN  IF part = <<>> THEN [ok |-> TRUE, ports |-> <<>>]
        ELSE IF k # 0
        THEN LET start == IntOf(SubSeq(part, 1, k - 1))
                 end == IntOf(SubSeq(part, k + 1, Len(part)))
             IN  IF start.ok /\ end.ok
                 THEN [ok |-> TRUE, ports |-> RangeList(start.value, end.value)]
                 ELSE [ok |-> FALSE, ports |-> <<>>]
        ELSE LET v == IntOf(part)
             IN  IF v.ok THEN [ok |-> TRUE, ports |-> <<v.value>>]
                 ELSE [ok |-> FALSE, ports |-> <<>>]

\* the ports one comma-separated piece adds; ok = FALSE: int() raised
PortsOfStripped(part) ==
    LET k == FirstIndex(part, "-")
    IN  IF part = <<>> THEN [ok |-> TRUE, ports |-> <<>>]
        ELSE IF k # 0
        THEN LET start == IntOf(SubSeq(part, 1, k - 1))
                 end == IntOf(SubSeq(part, k + 1, Len(part)))
             IN  IF start.ok /\ end.ok
                 THEN [ok |-> TRUE,
                       ports |-> IF start.value > end.value
                                 THEN RangeList(end.value, start.value)
                                 ELSE RangeList(start.value, end.value)]
                 ELSE [ok |-> FALSE, ports |-> <<>>]
        ELSE LET v == IntOf(part)
             IN  IF v.ok THEN [ok |-> TRUE, ports |-> <<v.value>>]
                 ELSE [ok |-> FALSE, ports |-> <<>>]

\* part = part.strip()
PortsOfPart(piece) ==
    CHOOSE added \in {PortsOfStripped(part) : part \in {Strip(piece)}} : TRUE

\* (a loop over the pieces that skips a piece int() rejects)
ExtendedSkippingBad(first, rest) ==
    [ok |-> TRUE,
     ports |-> (IF first.ok THEN first.ports ELSE <<>>)
               \o (IF rest.ok THEN rest.ports ELSE <<>>)]

\* the list built by the loop over the pieces; the first failing piece raises
ExtendedBy(first, rest) ==
    IF first.ok /\ rest.ok THEN [ok |-> TRUE, ports |-> first.ports \o rest.ports]
    ELSE [ok |-> FALSE, ports |-> <<>>]

RECURSIVE PortsOfParts(_)
PortsOfParts(parts) ==
    IF parts = <<>> THEN [ok |-> TRUE, ports |-> <<>>]
    ELSE CHOOSE built \in
            {ExtendedBy(first, rest) : first \in {PortsOfPart(Head(parts))},
                                      rest \in {PortsOfParts(Tail(parts))}} : TRUE

\* parse_ports(ports_str): ok = FALSE stands for the ValueError it raises
SortedPorts(built) ==
    IF built.ok THEN [ok |-> TRUE, ports |-> SortedSet(built.ports)]
    ELSE [ok |-> FALSE, ports |-> <<>>]

parse_ports(ports_str) ==
    CHOOSE parsed \in
        {SortedPorts(built) : built \in {PortsOfParts(Split(ports_str, ","))}} : TRUE

\* --------------------------------------------------------- target expanders
\* (a comprehension over range(start, end), which leaves the last host out)
RangeHostsExclusive(base_network, start, end) ==
    [i \in 1..(end - start) |-> base_network \o IntStr(start + i - 1)]

\* hosts = [f"{base_network}{i}" for i in range(start, end + 1)]
RangeHosts(base_network, start, end) ==
    [i \in 1..(end - start + 1) |-> base_network \o IntStr(start + i - 1)]

EndsWithDot(base_network) ==
    base_network # <<>> /\ base_network[Len(base_network)] = "."

\* ipaddress.ip_network(cidr, strict=False) of the literal o1.o2.o3.o4/len:
\* the literal is rejected (ValueError) unless it has four octets in 0..255
\* and 0 <= len <= 32; host bits are masked off.  (The addresses tried lie
\* below 128.0.0.0 and len is at least 2, so that all values fit the model
\* checker's integers.)
CidrValid(octets, len) ==
    /\ len \in 0..IPV4_BITS
    /\ Len(octets) = 4
    /\ \A i \in 1..Len(octets) : octets[i] \in 0..255

AddressValue(octets) ==
    ((octets[1] * 256 + octets[2]) * 256 + octets[3]) * 256 + octets[4]

BlockSize(len) == 2 ^ (IPV4_BITS - len)
NetworkAddress(addr, len) == addr - (addr % BlockSize(len))
BroadcastAddress(addr, len) == NetworkAddress(addr, len) + BlockSize(len) - 1

\* network.hosts(): every address but the network and broadcast ones; both
\* addresses of a /31; the one address of a /32
NetworkHosts(addr, len) ==
    LET net == NetworkAddress(addr, len)
        bc == BroadcastAddress(addr, len)
    IN  IF len >= IPV4_BITS - 1 THEN RangeList(net, bc)
        ELSE RangeList(net + 1, bc - 1)

\* str(h) of an IPv4Address: its four octets
DottedQuad(a) ==
    <<(a \div (2 ^ 24)) % 256, (a \div (2 ^ 16)) % 256, (a \div (2 ^ 8)) % 256, a % 256>>

\* hosts = [str(h) for h in network.hosts()]
CidrHosts(octets, len) ==
    LET hs == NetworkHosts(AddressValue(octets), len)
    IN  [i \in 1..Len(hs) |-> DottedQuad(hs[i])]

\* urls = [u.strip() for u in args.urls.split(",") if u.strip()]
RECURSIVE NonEmptyStripped(_)
NonEmptyStripped(pieces) ==
    IF pieces = <<>> THEN <<>>
    ELSE (IF Strip(Head(pieces)) # <<>> THEN <<Strip(Head(pieces))>> ELSE <<>>)
         \o NonEmptyStripped(Tail(pieces))

SplitUrls(urls_str) == NonEmptyStripped(Split(urls_str, ","))

\* --------------------------------------------------------------- arguments
RECURSIVE SeqsUpTo(_, _)
SeqsUpTo(S, n) ==
    IF n = 0 THEN {<<>>}
    ELSE LET shorter == SeqsUpTo(S, n - 1)
         IN  shorter \cup {Append(t, x) : t \in {u \in shorter : Len(u) = n - 1}, x \in S}

\* the characters --ports strings are made of: two digits, the two
\* separators, a blank and a letter
SpecChars == {"1", "2", "-", ",", " ", "x"}
SpecStrings == SeqsUpTo(SpecChars, MaxSpecLen)

\* ping-sweep: --network/--start/--end (given = FALSE: --start or --end is
\* missing), or --cidr as the literal o1.o2.o3.o4/len
RangeArgs(network, given, start, end) ==
    [kind |-> "range", network |-> network, given |-> given,
     start |-> start, end |-> end, addr |-> <<>>, len |-> 0]
CidrArgs(addr, len) ==
    [kind |-> "cidr", network |-> <<>>, given |-> FALSE,
     start |-> 0, end |-> 0, addr |-> addr, len |-> len]

PingArgs ==
    {RangeArgs(<<"1", ".">>, TRUE, 1, e) : e \in 0..MaxTargets}
    \cup {RangeArgs(<<"1", ".">>, TRUE, 9, 10),
          RangeArgs(<<"1">>, TRUE, 1, 1),
          RangeArgs(<<"1", ".">>, FALSE, 0, 0)}
    \cup {CidrArgs(<<10, 0, 0, 5>>, len) : len \in (IPV4_BITS - 2)..(IPV4_BITS + 1)}
    \cup {CidrArgs(<<10, 0, 0, 256>>, IPV4_BITS)}

\* port-scan: --ports strings that do not parse ("x", "1,x", "1-", "-1",
\* "1-x"), strings that name no port ("", ",", " "), and the strings
\* 1-1 .. 1-MaxTargets and 2,1
PortArgs ==
    {[ports |-> str] : str \in
        {<<"x">>, <<"1", ",", "x">>, <<"1", "-">>, <<"-", "1">>,
         <<"1", "-", "x">>, <<>>, <<",">>, <<" ">>}
        \cup {<<"1", "-">> \o NatStr(k) : k \in 1..MaxTargets}
        \cup {<<"2", ",", "1">>}}

\* the --urls string "n,..,2,1" (urls in an order that is not the natural one)
RECURSIVE UrlsDownFrom(_)
UrlsDownFrom(n) ==
    IF n = 0 THEN <<>>
    ELSE IF n = 1 THEN NatStr(1)
    ELSE NatStr(n) \o <<",">> \o UrlsDownFrom(n - 1)

\* http-check: these, one string with a repeated url, one with no url
UrlArgs ==
    {[urls |-> UrlsDownFrom(n)] : n \in 0..MaxTargets}
    \cup {[urls |-> <<"1", ",", "1">>], [urls |-> <<" ", ",", " ">>]}

ArgsOf(cmd) ==
    CASE cmd = "ping-sweep" -> PingArgs
      [] cmd = "port-scan"  -> PortArgs
      [] cmd = "http-check" -> UrlArgs

\* what main does with the arguments before any probe is submitted:
\*   "scan"   the scan goes on with these targets
\*   "empty"  the scan function returns [] at once
\*   "error"  main logs an error and returns 1
\*   "raise"  ValueError leaves the try block
Prepared(step, tgts) == [step |-> step, targets |-> tgts]

PreparePing(a) ==
    IF a.kind = "cidr"
    THEN IF CidrValid(a.addr, a.len) THEN Prepared("scan", CidrHosts(a.addr, a.len))
         ELSE Prepared("empty", <<>>)
    ELSE IF ~a.given THEN Prepared("error", <<>>)
    ELSE IF ~EndsWithDot(a.network) THEN Prepared("empty", <<>>)
    ELSE Prepared("scan", RangeHosts(a.network, a.start, a.end))

PreparePorts(a) ==
    LET parsed == parse_ports(a.ports) IN
    IF ~parsed.ok THEN Prepared("raise", <<>>)
    ELSE IF parsed.ports = <<>> THEN Prepared("error", <<>>)
    ELSE Prepared("scan", parsed.ports)

PrepareUrls(a) ==
    LET urls == SplitUrls(a.urls) IN
    IF urls = <<>> THEN Prepared("error", <<>>) ELSE Prepared("scan", urls)

Prepare(cmd, a) ==
    CASE cmd = "ping-sweep" -> PreparePing(a)
      [] cmd = "port-scan"  -> PreparePorts(a)
      [] cmd = "http-check" -> PrepareUrls(a)

\* ------------------------------------------------------------------ probes
\* the outcome of a future: its result (value = <<v>>), its exception, or
\* neither yet (value = <<>>)
Returned(v) == [kind |-> "result", value |-> <<v>>]
Raised == [kind |-> "exception", value |-> <<>>]
NoOutcome == [kind |-> "none", value |-> <<>>]

Env(ev, code) == [ev |-> ev, code |-> code]

\* what the operating system can answer to one probe
ProbeEnvs(cmd) ==
    CASE cmd = "ping-sweep" ->
            {Env("returncode", 0), Env("returncode", 1), Env("run_raises", 0)}
      [] cmd = "port-scan" ->
            {Env("connect_ex", 0), Env("connect_ex", 111),
             Env("connect_raises", 0), Env("socket_raises", 0)}
      [] cmd = "http-check" ->
            {Env("response", c) : c \in HttpStatuses}
            \cup {Env("RequestException", 0), Env("Exception", 0)}

ping_host(host, env) ==
    IF env.ev = "returncode" THEN Returned(env.code = 0) ELSE Returned(FALSE)

scan_port(port, env) ==
    CASE env.ev = "socket_raises"  -> Raised
      [] env.ev = "connect_raises" -> Returned(FALSE)
      [] OTHER                     -> Returned(env.code = 0)

\* (a probe that takes status 400 for accessible too)
check_http_url_inclusive(url, env) ==
    CASE env.ev = "response" ->
            Returned(<<url, env.code <= HTTP_ERROR_FLOOR, env.code, "">>)
      [] env.ev = "RequestException" ->
            Returned(<<url, FALSE, 0, "error">>)
      [] OTHER -> Raised

check_http_url(url, env) ==
    CASE env.ev = "response" ->
            Returned(<<url, env.code < HTTP_ERROR_FLOOR, env.code, "">>)
      [] env.ev = "RequestException" ->
            Returned(<<url, FALSE, 0, "error">>)
      [] OTHER -> Raised

\* (a task that appends what it found to the scan's list itself)
AfterTaskAppending(res, outcome) ==
    IF outcome.kind = "result" THEN Append(res, outcome.value[1]) ELSE res

\* the scan's result list after a worker ran a task: ping_host, scan_port and
\* check_http_url hand their verdict to the future and touch no list
AfterTask(res, outcome) == res

Probe(cmd, arg, env) ==
    CASE cmd = "ping-sweep" -> ping_host(arg, env)
      [] cmd = "port-scan"  -> scan_port(arg, env)
      [] cmd = "http-check" -> check_http_url(arg, env)

\* ---------------------------------------------------------------- executor
\* (a pool that forgets the cap when it starts a thread)
NeedsThreadUncapped(idle, num_threads, maxw) == idle = 0

\* ThreadPoolExecutor(max_workers=...)._adjust_thread_count: a thread is
\* started only when no idle worker took the semaphore and the cap allows it
NeedsThread(idle, num_threads, maxw) == idle = 0 /\ num_threads < maxw

NumThreads == polling + blocked + Cardinality(running) + exited

\* (an as_completed that yields a finished future again)
AsCompletedAgain(futs, yld) ==
    {f \in 1..Len(futs) : futs[f].state = "FINISHED"}

\* (an as_completed that never yields a future whose probe raised)
AsCompletedSkipsRaised(futs, yld) ==
    {f \in 1..Len(futs) : /\ futs[f].state = "FINISHED"
                          /\ futs[f].outcome.kind = "result"
                          /\ f \notin yld}

\* as_completed(future_map): the futures it may yield next.  It yields each
\* future once: those already finished when it is entered in the arbitrary
\* order of a set, the others in the order they finish.  Choosing any finished
\* future not yet yielded gives the same result lists, since the order in
\* which probes finish is itself arbitrary.
AsCompleted(futs, yld) ==
    {f \in 1..Len(futs) : futs[f].state = "FINISHED" /\ f \notin yld}

\* ---------------------------------------------------------------- collector
\* the body of the "for future in as_completed(future_map)" loop: the new
\* result list, and the exception leaving the loop ("none": all are caught)
Handled(res) == [results |-> res, exc |-> "none"]

HandlePing(host, outcome, live_hosts) ==
    IF outcome.kind = "result"
    THEN IF outcome.value[1] THEN Handled(Append(live_hosts, host))
                          ELSE Handled(live_hosts)
    ELSE Handled(live_hosts)

HandlePort(port, outcome, open_ports) ==
    IF outcome.kind = "result"
    THEN IF outcome.value[1] THEN Handled(Append(open_ports, port))
                          ELSE Handled(open_ports)
    ELSE Handled(open_ports)

HandleHttp(url, outcome, res) ==
    IF outcome.kind = "result"
    THEN Handled(Append(res, outcome.value[1]))
    ELSE Handled(res)

\* (a collector loop without its "except Exception" clause)
HandleNoExcept(cmd, target, outcome, res) ==
    IF outcome.kind = "exception"
    THEN [results |-> res, exc |-> "Exception"]
    ELSE CASE cmd = "ping-sweep" -> HandlePing(target, outcome, res)
           [] cmd = "port-scan"  -> HandlePort(target, outcome, res)
           [] cmd = "http-check" -> HandleHttp(target, outcome, res)

Handle(cmd, target, outcome, res) ==
    CASE cmd = "ping-sweep" -> HandlePing(target, outcome, res)
      [] cmd = "port-scan"  -> HandlePort(target, outcome, res)
      [] cmd = "http-check" -> HandleHttp(target, outcome, res)

\* the target the collector names for a handled future: future_map[future],
\* except for an HTTP result, which carries its own url
NamedTarget(cmd, target, outcome) ==
    IF cmd = "http-check" /\ outcome.kind = "result"
    THEN outcome.value[1][1]
    ELSE target

\* --------------------------------------------------------------------- main
\* (a main without its "except KeyboardInterrupt" clause returning 130)
ExitStatusNoInterrupt(e) ==
    CASE e \in {"none", "KeyboardInterrupt"} -> EXIT_OK
      [] OTHER                               -> EXIT_ERROR

\* main's try/except: the value it returns for the exception that reached it
ExitStatus(e) ==
    CASE e = "none"              -> EXIT_OK
      [] e = "KeyboardInterrupt" -> EXIT_INTERRUPTED
      [] OTHER                   -> EXIT_ERROR

HttpLine(r) ==
    IF r[2] THEN <<r[1], "OK", r[3]>>
    ELSE IF r[3] # 0 THEN <<r[1], "FAIL", r[3]>>
    ELSE <<r[1], "ERROR", r[4]>>

\* the lines main prints for a returned result list
PrintLines(cmd, res) ==
    IF cmd = "http-check" THEN [i \in 1..Len(res) |-> HttpLine(res[i])]
    ELSE res

AfterSubmit(k) == IF k = N THEN "collect" ELSE "submit"

\* no scan has started
PoolIdle ==
    /\ targets = <<>>
    /\ resolved = "none"
    /\ futures = <<>>
    /\ future_map = <<>>
    /\ work_queue = <<>>
    /\ idle_semaphore = 0
    /\ polling = 0
    /\ blocked = 0
    /\ running = {}
    /\ exited = 0
    /\ shutdown = FALSE
    /\ yielded = {}
    /\ results = <<>>
    /\ invoked = <<>>
    /\ handled = <<>>
    /\ attributed = {}
    /\ exc = "none"
    /\ intr_at = "none"
    /\ printed = <<>>
    /\ status = NoStatus

funcVars == <<fn_name, fn_in, fn_out>>
rollbackVars == <<previous_target, current_target>>
deployVars == <<releases, current, previous, dpc, old_target, new_release, pruned,
                rollbackVars, runs>>
otherVars == <<funcVars, deployVars>>

FuncIdle == fn_name = "none" /\ fn_in = <<>> /\ fn_out = <<>>
DeployIdle ==
    /\ releases = {}
    /\ current = {}
    /\ previous = {}
    /\ dpc = "off"
    /\ old_target = {}
    /\ new_release = {}
    /\ pruned = {}
    /\ previous_target = {}
    /\ current_target = {}
    /\ runs = <<>>

OthersIdle == FuncIdle /\ DeployIdle

Init ==
    /\ command \in Commands
    /\ args \in ArgsOf(command)
    /\ max_workers \in 1..MaxWorkers
    /\ pc = "start"
    /\ PoolIdle
    /\ OthersIdle

poolVars == <<futures, future_map, work_queue, idle_semaphore, polling, blocked,
              running, exited, shutdown, yielded, results, invoked, handled,
              attributed>>
inputVars == <<command, args, max_workers>>
intrVars == <<exc, intr_at>>

\* main: dispatch on the command and build the target list
Start ==
    /\ pc = "start"
    /\ \E p \in {Prepare(command, args)} :
         /\ targets' = p.targets
         /\ invoked' = [f \in 1..Len(p.targets) |-> 0]
         /\ handled' = [f \in 1..Len(p.targets) |-> 0]
         /\ exc' = IF p.step = "raise" THEN "ValueError" ELSE exc
         /\ status' = CASE p.step = "raise" -> ExitStatus("ValueError")
                         [] p.step = "error" -> EXIT_ERROR
                         [] OTHER            -> status
         /\ pc' = CASE p.step \in {"raise", "error"} -> "done"
                     [] p.step = "empty"              -> "print"
                     [] command = "port-scan"         -> "resolve"
                     [] p.targets = <<>>              -> "collect"
                     [] OTHER                         -> "submit"
    /\ UNCHANGED <<inputVars, otherVars, intr_at, resolved, printed, futures,
                   future_map, work_queue, idle_semaphore, polling, blocked, running,
                   exited, shutdown, yielded, results, attributed>>

\* port_scan: socket.gethostbyname(host); on gaierror it returns []
Resolve ==
    /\ pc = "resolve"
    /\ \E ok \in BOOLEAN :
         /\ resolved' = IF ok THEN "ok" ELSE "failed"
         /\ pc' = IF ok THEN AfterSubmit(0) ELSE "print"
    /\ UNCHANGED <<inputVars, otherVars, targets, poolVars, intrVars, printed, status>>

\* one executor.submit(probe, target, timeout) of the future_map comprehension
Submit ==
    /\ pc = "submit"
    /\ LET f == Len(futures) + 1 IN
         /\ futures' = Append(futures,
                [state |-> "PENDING", arg |-> targets[f], outcome |-> NoOutcome])
         /\ future_map' = Append(future_map, targets[f])
         /\ work_queue' = Append(work_queue, f)
         /\ IF idle_semaphore > 0
            THEN idle_semaphore' = idle_semaphore - 1 /\ polling' = polling
            ELSE /\ idle_semaphore' = idle_semaphore
                 /\ polling' = IF NeedsThread(idle_semaphore, NumThreads, max_workers)
                               THEN polling + 1 ELSE polling
         /\ pc' = AfterSubmit(f)
    /\ UNCHANGED <<inputVars, otherVars, targets, intrVars, resolved, blocked, running, exited, shutdown,
                   yielded, results, invoked, handled, attributed, printed, status>>

\* one iteration of the as_completed loop
Collect ==
    /\ pc = "collect"
    /\ \E f \in AsCompleted(futures, yielded) :
         LET h == Handle(command, future_map[f], futures[f].outcome, results) IN
         /\ yielded' = yielded \cup {f}
         /\ handled' = [handled EXCEPT ![f] = @ + 1]
         /\ attributed' = attributed \cup
                {<<f, NamedTarget(command, future_map[f], futures[f].outcome)>>}
         /\ results' = h.results
         /\ exc' = h.exc
         /\ pc' = IF h.exc = "none" THEN "collect" ELSE "shutdown"
         /\ shutdown' = IF h.exc = "none" THEN shutdown ELSE TRUE
    /\ UNCHANGED <<inputVars, otherVars, targets, resolved, futures, future_map, work_queue, idle_semaphore,
                   polling, blocked, running, exited, invoked, intr_at,
                   printed, status>>

\* as_completed is exhausted: the with block ends, __exit__ calls shutdown(wait=True)
ExitWith ==
    /\ pc = "collect"
    /\ yielded = 1..N
    /\ shutdown' = TRUE
    /\ pc' = "shutdown"
    /\ UNCHANGED <<inputVars, otherVars, targets, intrVars, resolved, futures, future_map, work_queue,
                   idle_semaphore, polling, blocked, running, exited, yielded, results,
                   invoked, handled, attributed, printed, status>>

\* shutdown(wait=True) has joined every worker thread: the scan returns its
\* list, or the exception that ended the with block reaches main's handlers
Join ==
    /\ pc = "shutdown"
    /\ polling = 0 /\ blocked = 0 /\ running = {}
    /\ IF exc = "none"
       THEN pc' = "print" /\ status' = status
       ELSE pc' = "done" /\ status' = ExitStatus(exc)
    /\ UNCHANGED <<inputVars, otherVars, targets, poolVars, intrVars, resolved, printed>>

\* main prints the returned list and returns 0
PrintResults ==
    /\ pc = "print"
    /\ printed' = PrintLines(command, results)
    /\ status' = ExitStatus(exc)
    /\ pc' = "done"
    /\ UNCHANGED <<inputVars, otherVars, targets, poolVars, intrVars, resolved>>

\* KeyboardInterrupt raised in the main thread (one interrupt per run)
InterruptBeforeScan ==
    /\ pc \in {"start", "resolve"}
    /\ exc = "none"
    /\ exc' = "KeyboardInterrupt"
    /\ intr_at' = pc
    /\ status' = ExitStatus("KeyboardInterrupt")
    /\ pc' = "done"
    /\ UNCHANGED <<inputVars, otherVars, targets, poolVars, resolved, printed>>

\* inside the with block: __exit__ runs shutdown(wait=True), which cancels nothing
InterruptInScan ==
    /\ pc \in {"submit", "collect"}
    /\ exc = "none"
    /\ exc' = "KeyboardInterrupt"
    /\ intr_at' = pc
    /\ shutdown' = TRUE
    /\ pc' = "shutdown"
    /\ UNCHANGED <<inputVars, otherVars, targets, resolved, futures, future_map, work_queue, idle_semaphore,
                   polling, blocked, running, exited, yielded, results, invoked,
                   handled, attributed, printed, status>>

\* inside shutdown's thread.join(): the join is abandoned
InterruptInJoin ==
    /\ pc = "shutdown"
    /\ exc = "none"
    /\ exc' = "KeyboardInterrupt"
    /\ intr_at' = pc
    /\ status' = ExitStatus("KeyboardInterrupt")
    /\ pc' = "done"
    /\ UNCHANGED <<inputVars, otherVars, targets, poolVars, resolved, printed>>

\* after the scan has returned, while main prints: some lines are already out
InterruptInPrint ==
    /\ pc = "print"
    /\ exc = "none"
    /\ \E k \in 0..Len(results) :
         printed' = SubSeq(PrintLines(command, results), 1, k)
    /\ exc' = "KeyboardInterrupt"
    /\ intr_at' = pc
    /\ status' = ExitStatus("KeyboardInterrupt")
    /\ pc' = "done"
    /\ UNCHANGED <<inputVars, otherVars, targets, poolVars, resolved>>

\* ------------------------------------------------------------ worker threads
\* work_item.run(): set_running_or_notify_cancel(), then the probe is called
StartRun(f) ==
    /\ futures' = [futures EXCEPT ![f].state = "RUNNING"]
    /\ running' = running \cup {f}
    /\ invoked' = [invoked EXCEPT ![f] = @ + 1]
    /\ work_queue' = Tail(work_queue)

\* a worker at work_queue.get_nowait()
WorkerPoll ==
    /\ polling > 0
    /\ polling' = polling - 1
    /\ IF work_queue # <<>>
       THEN /\ StartRun(Head(work_queue))
            /\ UNCHANGED <<idle_semaphore, blocked, exited>>
       ELSE IF shutdown
       THEN /\ exited' = exited + 1
            /\ UNCHANGED <<futures, running, invoked, work_queue, idle_semaphore, blocked>>
       ELSE /\ idle_semaphore' = idle_semaphore + 1
            /\ blocked' = blocked + 1
            /\ UNCHANGED <<futures, running, invoked, work_queue, exited>>
    /\ UNCHANGED <<inputVars, otherVars, targets, intrVars, pc, resolved, future_map, shutdown, yielded,
                   results, handled, attributed, printed, status>>

\* a worker blocked in work_queue.get(block=True) receives an item or the
\* None that shutdown put behind the items
WorkerGet ==
    /\ blocked > 0
    /\ work_queue # <<>> \/ shutdown
    /\ blocked' = blocked - 1
    /\ IF work_queue # <<>>
       THEN /\ StartRun(Head(work_queue))
            /\ UNCHANGED exited
       ELSE /\ exited' = exited + 1
            /\ UNCHANGED <<futures, running, invoked, work_queue>>
    /\ UNCHANGED <<inputVars, otherVars, targets, intrVars, pc, resolved, future_map, idle_semaphore, polling,
                   shutdown, yielded, results, handled, attributed, printed, status>>

\* the probe of a running future returns or raises; the future is FINISHED
WorkerReturn ==
    /\ \E f \in running, env \in ProbeEnvs(command) :
         \E outcome \in {Probe(command, futures[f].arg, env)} :
            /\ futures' = [futures EXCEPT ![f].state = "FINISHED",
                                          ![f].outcome = outcome]
            /\ results' = AfterTask(results, outcome)
            /\ running' = running \ {f}
    /\ polling' = polling + 1
    /\ UNCHANGED <<inputVars, otherVars, targets, intrVars, pc, resolved, future_map, work_queue,
                   idle_semaphore, blocked, exited, shutdown, yielded, invoked,
                   handled, attributed, printed, status>>

MainStep == Start \/ Resolve \/ Submit \/ Collect \/ ExitWith \/ Join \/ PrintResults
WorkerStep == WorkerPoll \/ WorkerGet \/ WorkerReturn

Next ==
    \/ Start \/ Resolve \/ Submit \/ Collect \/ ExitWith \/ Join \/ PrintResults
    \/ WorkerPoll \/ WorkerGet \/ WorkerReturn
    \/ InterruptBeforeScan \/ InterruptInScan \/ InterruptInJoin \/ InterruptInPrint

Spec == Init /\ [][Next]_vars

\* every thread that can take a step eventually takes one, and every probe
\* returns or raises; the interrupt may or may not come
FairSpec == Spec /\ WF_vars(MainStep) /\ WF_vars(WorkerStep)

\* ------------------------------------------------- the functions on their own
\* parse_ports and check_http_url applied to one input each, with no command
\* running
MainOff ==
    /\ command = "none"
    /\ args = <<>>
    /\ max_workers = 1
    /\ pc = "off"
    /\ PoolIdle

mainVars == <<inputVars, targets, pc, resolved, poolVars, intrVars, printed, status>>

\* the status codes a response can carry (http.client accepts 100..999)
ResponseCodes == {100, 200, 204, 301, 399, 400, 404, 500, 999}

HttpEnvs ==
    {Env("response", c) : c \in ResponseCodes}
    \cup {Env("RequestException", 0), Env("Exception", 0)}

ProbedUrl == <<"u">>

FuncInit ==
    /\ MainOff
    /\ DeployIdle
    /\ \/ fn_name = "parse_ports" /\ fn_in \in SpecStrings
       \/ fn_name = "check_http_url" /\ fn_in \in HttpEnvs
    /\ fn_out = <<>>

\* ports = parse_ports(args.ports)
ApplyParsePorts ==
    /\ fn_name = "parse_ports"
    /\ fn_out = <<>>
    /\ fn_out' = <<parse_ports(fn_in)>>
    /\ UNCHANGED <<fn_name, fn_in, mainVars, deployVars>>

\* one check_http_url call, and the lines main prints when http_check returns
\* what that call gave it
ApplyCheckHttp ==
    /\ fn_name = "check_http_url"
    /\ fn_out = <<>>
    /\ \E outcome \in {check_http_url(ProbedUrl, fn_in)} :
         fn_out' = <<[outcome |-> outcome,
                      lines |-> PrintLines("http-check", outcome.value)]>>
    /\ UNCHANGED <<fn_name, fn_in, mainVars, deployVars>>

FuncNext == ApplyParsePorts \/ ApplyCheckHttp

FuncSpec == FuncInit /\ [][FuncNext]_vars

\* ---------------------------------------------------------------- deploy.py
\* the links a release directory set allows: none, or one to a release
LinksTo(rs) == {{}} \cup {{r} : r \in rs}

\* /opt/myapp as earlier deploys (completed or stopped) can have left it
DeployInit ==
    /\ MainOff
    /\ FuncIdle
    /\ \E k \in 0..(MaxReleases - 1) : releases = 1..k
    /\ current \in LinksTo(releases)
    /\ previous \in LinksTo(releases)
    /\ dpc = "idle"
    /\ old_target = {}
    /\ new_release = {}
    /\ pruned \in SUBSET releases
    /\ previous_target = {}
    /\ current_target = {}
    /\ runs = <<>>

\* a run of a script: which one, how far it got ("running", "completed",
\* "failed", "refused", "stopped"), the links it found and the release it made
Run(script, state, release) ==
    [script |-> script, state |-> state, current |-> current,
     previous |-> previous, release |-> release]

\* the last two runs, after one more has started
Started(rs, run) == IF rs = <<>> THEN <<run>> ELSE <<rs[Len(rs)], run>>

\* the last two runs, after the running one has ended
Ended(rs, state) == [rs EXCEPT ![Len(rs)].state = state]

\* main up to the call of update_symlinks: create_release_dir makes a new
\* directory (named by the time, so later than all others) and fills it
CreateRelease ==
    /\ dpc = "idle"
    /\ Cardinality(releases) < MaxReleases
    /\ \E r \in {Cardinality(releases) + 1} :
         /\ releases' = releases \cup {r}
         /\ new_release' = {r}
         /\ runs' = Started(runs, Run("deploy", "running", {r}))
    /\ old_target' = {}
    /\ dpc' = "update_symlinks"
    /\ UNCHANGED <<mainVars, funcVars, pruned, rollbackVars, current, previous>>

\* (the previous link is resolved in place of the current one)
ResolvePreviousInstead ==
    /\ dpc = "update_symlinks"
    /\ old_target' = previous
    /\ dpc' = IF current # {} THEN "unlink_previous" ELSE "link_current"
    /\ UNCHANGED <<mainVars, funcVars, pruned, rollbackVars, runs, releases,
                   current, previous, new_release>>

\* if CURRENT_LINK.is_symlink() or CURRENT_LINK.exists(): old_target = resolve()
ResolveCurrent ==
    /\ dpc = "update_symlinks"
    /\ old_target' = current
    /\ dpc' = IF current # {} THEN "unlink_previous" ELSE "link_current"
    /\ UNCHANGED <<mainVars, funcVars, pruned, rollbackVars, runs, releases, current, previous, new_release>>

\* if PREVIOUS_LINK.is_symlink() or PREVIOUS_LINK.exists(): PREVIOUS_LINK.unlink()
UnlinkPrevious ==
    /\ dpc = "unlink_previous"
    /\ previous' = {}
    /\ dpc' = "link_previous"
    /\ UNCHANGED <<mainVars, funcVars, pruned, rollbackVars, runs, releases, current, old_target, new_release>>

\* PREVIOUS_LINK.symlink_to(old_target)
LinkPrevious ==
    /\ dpc = "link_previous"
    /\ previous' = old_target
    /\ dpc' = "unlink_current"
    /\ UNCHANGED <<mainVars, funcVars, pruned, rollbackVars, runs, releases, current, old_target, new_release>>

\* CURRENT_LINK.unlink()
UnlinkCurrent ==
    /\ dpc = "unlink_current"
    /\ current' = {}
    /\ dpc' = "link_current"
    /\ UNCHANGED <<mainVars, funcVars, pruned, rollbackVars, runs, releases, previous, old_target, new_release>>

\* CURRENT_LINK.symlink_to(new_release); update_symlinks returns and main ends
LinkCurrent ==
    /\ dpc = "link_current"
    /\ current' = new_release
    /\ dpc' = "idle"
    /\ runs' = Ended(runs, "completed")
    /\ UNCHANGED <<mainVars, funcVars, pruned, rollbackVars, releases, previous, old_target, new_release>>

\* the script is stopped (killed, power loss) between two steps
DeployStopped ==
    /\ dpc \notin {"idle", "off"}
    /\ dpc' = "idle"
    /\ runs' = Ended(runs, "stopped")
    /\ UNCHANGED <<mainVars, funcVars, pruned, rollbackVars, releases, current,
                   previous, old_target, new_release>>

\* ------------------------------------------------- rollback.py: rollback
\* Path.exists() of the directory a link names
TargetExists(link) == link # {} /\ link \subseteq releases \ pruned

\* if not PREVIOUS_LINK.is_symlink(), or if not previous_target.exists():
\* raise SystemExit, before any link was touched
RollbackRefused ==
    /\ dpc = "idle"
    /\ ~TargetExists(previous)
    /\ runs' = Started(runs, Run("rollback", "refused", {}))
    /\ UNCHANGED <<mainVars, funcVars, pruned, rollbackVars, releases, current,
                   previous, dpc, old_target, new_release>>

\* previous_target = PREVIOUS_LINK.resolve(), and it exists
ResolvePrevious ==
    /\ dpc = "idle"
    /\ TargetExists(previous)
    /\ previous_target' = previous
    /\ current_target' = {}
    /\ runs' = Started(runs, Run("rollback", "running", {}))
    /\ dpc' = "rollback"
    /\ UNCHANGED <<mainVars, funcVars, pruned, releases, current, previous,
                   old_target, new_release>>

\* if CURRENT_LINK.is_symlink(): current_target = CURRENT_LINK.resolve()
ResolveCurrentTarget ==
    /\ dpc = "rollback"
    /\ current_target' = current
    /\ dpc' = IF current # {} THEN "rollback_unlink_current"
                               ELSE "rollback_link_current"
    /\ UNCHANGED <<mainVars, funcVars, pruned, releases, current, previous,
                   old_target, new_release, previous_target, runs>>

\* CURRENT_LINK.unlink()
RollbackUnlinkCurrent ==
    /\ dpc = "rollback_unlink_current"
    /\ current' = {}
    /\ dpc' = "rollback_unlink_previous"
    /\ UNCHANGED <<mainVars, funcVars, pruned, rollbackVars, releases, previous,
                   old_target, new_release, runs>>

\* PREVIOUS_LINK.unlink()
RollbackUnlinkPrevious ==
    /\ dpc = "rollback_unlink_previous"
    /\ previous' = {}
    /\ dpc' = "rollback_link_previous"
    /\ UNCHANGED <<mainVars, funcVars, pruned, rollbackVars, releases, current,
                   old_target, new_release, runs>>

\* (previous is linked to the release that is rolled back to)
RollbackLinkPreviousAgain ==
    /\ dpc = "rollback_link_previous"
    /\ previous' = previous_target
    /\ dpc' = "rollback_link_current"
    /\ UNCHANGED <<mainVars, funcVars, pruned, rollbackVars, releases, current,
                   old_target, new_release, runs>>

\* PREVIOUS_LINK.symlink_to(current_target)
RollbackLinkPrevious ==
    /\ dpc = "rollback_link_previous"
    /\ previous' = current_target
    /\ dpc' = "rollback_link_current"
    /\ UNCHANGED <<mainVars, funcVars, pruned, rollbackVars, releases, current,
                   old_target, new_release, runs>>

\* CURRENT_LINK.symlink_to(previous_target)
RollbackLinkCurrent ==
    /\ dpc = "rollback_link_current"
    /\ current' = previous_target
    /\ dpc' = "reload"
    /\ UNCHANGED <<mainVars, funcVars, pruned, rollbackVars, releases, previous,
                   old_target, new_release, runs>>

\* run(["sudo", "systemctl", "reload", SYSTEMD_SERVICE]): check=True raises
\* when the command fails; the links are as rollback left them either way
Reload ==
    /\ dpc = "reload"
    /\ dpc' = "idle"
    /\ \E returncode \in {0, 1} :
         runs' = Ended(runs, IF returncode = 0 THEN "completed" ELSE "failed")
    /\ UNCHANGED <<mainVars, funcVars, pruned, rollbackVars, releases, current,
                   previous, old_target, new_release>>

DeployNext ==
    \/ CreateRelease \/ ResolveCurrent \/ UnlinkPrevious \/ LinkPrevious
    \/ UnlinkCurrent \/ LinkCurrent \/ DeployStopped
    \/ RollbackRefused \/ ResolvePrevious \/ ResolveCurrentTarget
    \/ RollbackUnlinkCurrent \/ RollbackUnlinkPrevious \/ RollbackLinkPrevious
    \/ RollbackLinkCurrent \/ Reload

DeploySpec == DeployInit /\ [][DeployNext]_vars

\* ------------------------------------------------------------------- claims
\* the with block was left normally: every future was yielded and every
\* worker joined, with no interrupt before the scan function returned
UninterruptedEnd ==
    /\ shutdown
    /\ pc \in {"print", "done"}
    /\ intr_at \in {"none", "print"}

\* the interrupt arrived while the scan was in progress
ScanInterrupted == intr_at \in {"submit", "collect", "shutdown"}

Faulted(f) == futures[f].outcome.kind = "exception"
Positive(f) == futures[f].outcome.kind = "result" /\ futures[f].outcome.value[1]

\* the targets at the positions in S, in input order
RECURSIVE TargetsAt(_, _)
TargetsAt(S, i) ==
    IF i > N THEN <<>>
    ELSE (IF i \in S THEN <<targets[i]>> ELSE <<>>) \o TargetsAt(S, i + 1)

\* the values returned by the probes at the positions in S, in input order
RECURSIVE ValuesAt(_, _)
ValuesAt(S, i) ==
    IF i > N THEN <<>>
    ELSE (IF i \in S THEN futures[i].outcome.value ELSE <<>>) \o ValuesAt(S, i + 1)

\* C1: in every state no probe has been invoked twice and no future handled
\* twice, a handled future is finished and was named with the target it was
\* submitted with; when an uninterrupted scan has ended, every target's probe
\* was invoked exactly once and its outcome handled exactly once.
C1_OneOutcomePerTarget ==
    /\ \A f \in 1..N :
         /\ invoked[f] <= 1
         /\ handled[f] <= 1
         /\ handled[f] = 1 => f <= Len(futures) /\ futures[f].state = "FINISHED"
    /\ \A p \in attributed :
         /\ p[2] = targets[p[1]]
         /\ p[2] = futures[p[1]].arg
    /\ UninterruptedEnd =>
         \A f \in 1..N :
           /\ invoked[f] = 1
           /\ handled[f] = 1
           /\ <<f, targets[f]>> \in attributed

C1_Witness ==
    /\ UninterruptedEnd
    /\ pc = "done" /\ status = EXIT_OK
    /\ max_workers >= 2
    /\ N > max_workers
    /\ \A f \in 1..N : invoked[f] = 1 /\ handled[f] = 1

\* C2: the number of probes started and not yet returned never exceeds the
\* worker cap.
C2_InFlightAtMostW == Cardinality(running) <= max_workers

C2_Witness ==
    /\ max_workers >= 2
    /\ Cardinality(running) = max_workers
    /\ work_queue # <<>>

\* C3 (as claimed): an uninterrupted http_check returns one tuple per URL,
\* also for the URLs whose probe raised.
C3_OneTuplePerUrl ==
    (UninterruptedEnd /\ command = "http-check") =>
        /\ Len(results) = N
        /\ \A f \in 1..N : \E i \in 1..Len(results) : results[i][1] = targets[f]

\* C4: no probe's exception leaves the collector loop, and when an
\* uninterrupted scan has ended, every target whose probe did not raise was
\* probed once and handled once, its positive verdict is in the result list,
\* and main does not return the error status.
C4_FaultsDoNotAbort ==
    /\ exc # "Exception"
    /\ UninterruptedEnd =>
         /\ status # EXIT_ERROR
         /\ \A f \in 1..N :
              ~Faulted(f) =>
                /\ invoked[f] = 1
                /\ handled[f] = 1
                /\ command = "http-check" => futures[f].outcome.value[1] \in Range(results)
                /\ (command # "http-check" /\ Positive(f)) => targets[f] \in Range(results)

C4_Witness ==
    /\ UninterruptedEnd
    /\ pc = "done" /\ status = EXIT_OK
    /\ \E f, g \in 1..N :
         /\ Faulted(f)
         /\ ~Faulted(g)
         /\ invoked[g] = 1 /\ handled[g] = 1

\* C5 (as claimed): the list a ping sweep returns is the hosts whose probe
\* reported up, in input order.
C5_LiveHostsInInputOrder ==
    (UninterruptedEnd /\ command = "ping-sweep") =>
        results = TargetsAt({f \in 1..N : Positive(f)}, 1)

\* C6 (as claimed): the list port_scan returns holds exactly the ports whose
\* probe reported open, in ascending order.
C6_OpenPortsAscending ==
    (UninterruptedEnd /\ command = "port-scan") =>
        /\ Range(results) = {targets[f] : f \in {g \in 1..N : Positive(g)}}
        /\ \A i \in 1..(Len(results) - 1) : results[i] < results[i + 1]

\* C7 (as claimed): the tuples http_check returns are in the order of the
\* input URL list.
C7_HttpResultsInInputOrder ==
    (UninterruptedEnd /\ command = "http-check") =>
        results = ValuesAt({f \in 1..N : ~Faulted(f)}, 1)

\* C8: under fair scheduling, with every probe returning or raising, main
\* returns and every worker thread ends; if no interrupt came and the scan
\* ran, every target's outcome has been collected by then.
Terminated ==
    /\ pc = "done"
    /\ polling = 0 /\ blocked = 0 /\ running = {}
    /\ (shutdown /\ intr_at = "none") => \A f \in 1..N : handled[f] = 1

C8_Terminates == <>Terminated

C8_Witness ==
    /\ Terminated
    /\ status = EXIT_OK
    /\ N > max_workers
    /\ \A f \in 1..N : handled[f] = 1 /\ Faulted(f)

\* C9 (as claimed): once the interrupt has arrived, no probe that had not
\* started is started.
C9_NoStartAfterInterrupt ==
    [][exc = "KeyboardInterrupt" =>
         \A f \in 1..Len(futures) :
            futures[f].state = "PENDING" => futures'[f].state = "PENDING"]_vars

\* C10: a scan interrupted while in progress prints no result line and main
\* returns 130, never 0.
C10_InterruptedNotCompleted ==
    ScanInterrupted =>
        /\ printed = <<>>
        /\ status \in {NoStatus, EXIT_INTERRUPTED}
        /\ pc = "done" => status = EXIT_INTERRUPTED

C10_Witness ==
    /\ intr_at = "collect"
    /\ pc = "done"
    /\ results # <<>>
    /\ status = EXIT_INTERRUPTED

\* ---------------------------------------------------------------- C11 .. C20
\* what a port specification names, read off its tokens without parse_ports:
\* a token is blank, an unsigned number, or two unsigned numbers around "-"
IsNumber(t) == Strip(t) # <<>> /\ Range(Strip(t)) \subseteq Digits
NumberOf(t) == DigitsValue(Strip(t))

IsRange(t, k) ==
    /\ t[k] = "-"
    /\ IsNumber(SubSeq(t, 1, k - 1))
    /\ IsNumber(SubSeq(t, k + 1, Len(t)))

IsToken(t) ==
    \/ Strip(t) = <<>>
    \/ IsNumber(t)
    \/ \E k \in 1..Len(t) : IsRange(t, k)

Between(a, b) == IF a <= b THEN a..b ELSE b..a

TokenPorts(t) ==
    IF Strip(t) = <<>> THEN {}
    ELSE IF IsNumber(t) THEN {NumberOf(t)}
    ELSE UNION {Between(NumberOf(SubSeq(t, 1, k - 1)), NumberOf(SubSeq(t, k + 1, Len(t)))) :
                    k \in {j \in 1..Len(t) : IsRange(t, j)}}

Tokens(str) == Range(Split(str, ","))
WellFormedSpec(str) == \A t \in Tokens(str) : IsToken(t)
NamedPorts(str) == UNION {TokenPorts(t) : t \in Tokens(str)}

StrictlyAscending(xs) == \A i, j \in 1..Len(xs) : i < j => xs[i] < xs[j]

\* C11: for every port specification made of comma-separated single integers
\* and low-high ranges, parse_ports returns exactly the ports the tokens name
\* (ranges inclusive, a reversed range read as low-high, empty tokens
\* ignored), without duplicates and in strictly ascending order.
C11_ParsePortsNamesTheSet ==
    (fn_name = "parse_ports" /\ fn_out # <<>> /\ WellFormedSpec(fn_in)) =>
        /\ fn_out[1].ok
        /\ Range(fn_out[1].ports) = NamedPorts(fn_in)
        /\ StrictlyAscending(fn_out[1].ports)

\* the specification "2-1," (a reversed range and an empty token) was parsed
C11_Witness ==
    /\ fn_name = "parse_ports"
    /\ fn_in = <<"2", "-", "1", ",">>
    /\ fn_out = <<[ok |-> TRUE, ports |-> <<1, 2>>]>>

\* a token with a character that no integer literal has
NonNumericToken(t) == \E i \in 1..Len(t) : t[i] \notin Digits \cup {"-", "+", " "}
HasNonNumericToken(str) == \E t \in Tokens(str) : NonNumericToken(t)

\* C12: a port specification with a non-numeric token makes parse_ports
\* fail, and the port-scan invocation ends with an error status with no host
\* resolution and no probe dispatched, the valid tokens included.
C12_BadPortSpecFailsFast ==
    (command = "port-scan" /\ HasNonNumericToken(args.ports)) =>
        /\ ~parse_ports(args.ports).ok
        /\ pc \in {"start", "done"}
        /\ resolved = "none"
        /\ futures = <<>> /\ work_queue = <<>> /\ running = {}
        /\ results = <<>> /\ printed = <<>>
        /\ pc = "done" =>
              /\ status \in {EXIT_ERROR, EXIT_INTERRUPTED}
              /\ intr_at = "none" => status = EXIT_ERROR

\* --ports "1,x" (a valid token before the bad one) has ended with status 1
C12_Witness ==
    /\ command = "port-scan"
    /\ args.ports = <<"1", ",", "x">>
    /\ pc = "done"
    /\ exc = "ValueError"
    /\ status = EXIT_ERROR
    /\ invoked = <<>>

\* ping-sweep --network .. --start s --end e, both given
RangeSweep == command = "ping-sweep" /\ args.kind = "range" /\ args.given

\* C13: a range sweep with start > end reports a failure: it does not return
\* normally with an empty result (and it does not probe end..start).
C13_ReversedRangeFails ==
    (RangeSweep /\ args.start > args.end /\ pc = "done" /\ intr_at = "none") =>
        /\ status # EXIT_OK
        /\ futures = <<>>

\* main has called the scan function (no interrupt came before the call)
ScanCalled == pc # "start" /\ intr_at # "start"

\* what follows the prefix in a target
SuffixOf(target, prefix) == SubSeq(target, Len(prefix) + 1, Len(target))

\* the targets are the end - start + 1 strings prefix+i, i = start..end in
\* ascending order, and each is submitted to the pool exactly once
RangeTargetsExact ==
        /\ Len(targets) = args.end - args.start + 1
        /\ \A i \in 1..Len(targets) :
              /\ SubSeq(targets[i], 1, Len(args.network)) = args.network
              /\ IntOf(SuffixOf(targets[i], args.network))
                    = [ok |-> TRUE, value |-> args.start + i - 1]
        /\ Len(futures) <= Len(targets)
        /\ \A f \in 1..Len(futures) : futures[f].arg = targets[f] /\ future_map[f] = targets[f]
        /\ (pc # "submit" /\ intr_at = "none") => Len(futures) = Len(targets)

\* C14 as stated: for every prefix and every start <= end, the target list
\* of ping_sweep_range is exactly the strings prefix+i for i = start..end, in
\* ascending order, each submitted once.
C14_AnyPrefix ==
    (RangeSweep /\ args.start <= args.end /\ ScanCalled) => RangeTargetsExact

\* C14, amended: for every prefix that ends with "." and every start <= end,
\* the target list of ping_sweep_range is exactly the end - start + 1 strings
\* prefix+i for i = start..end, in ascending order, each submitted once.
C14_RangeTargetsExact ==
    (RangeSweep /\ EndsWithDot(args.network) /\ args.start <= args.end /\ ScanCalled) =>
        RangeTargetsExact

\* --start 9 --end 10: the two targets 1.9 and 1.10 were submitted and the run ended
C14_Witness ==
    /\ RangeSweep
    /\ args.start = 9 /\ args.end = 10
    /\ targets = <<<<"1", ".", "9">>, <<"1", ".", "1", "0">>>>
    /\ future_map = targets
    /\ pc = "done"
    /\ intr_at = "none"

\* ping-sweep --cidr ..
CidrSweep == command = "ping-sweep" /\ args.kind = "cidr"

\* the usable host addresses of the block of addr/len: all but the network
\* and broadcast addresses (all of them in a /31 or /32, which has neither)
UsableHosts(addr, len) ==
    IF len >= IPV4_BITS - 1
    THEN NetworkAddress(addr, len)..BroadcastAddress(addr, len)
    ELSE (NetworkAddress(addr, len) + 1)..(BroadcastAddress(addr, len) - 1)

\* C15: for a valid CIDR block the target list of ping_sweep_cidr is exactly
\* the usable host addresses of the block, distinct and in ascending order;
\* an unparsable literal yields a failure (InvalidRange) and no probe.
C15_CidrTargetsExact ==
    (CidrSweep /\ ScanCalled) =>
        IF CidrValid(args.addr, args.len)
        THEN /\ {AddressValue(targets[i]) : i \in 1..Len(targets)}
                    = UsableHosts(AddressValue(args.addr), args.len)
             /\ \A i, j \in 1..Len(targets) :
                    i < j => AddressValue(targets[i]) < AddressValue(targets[j])
        ELSE /\ futures = <<>>
             /\ (pc = "done" /\ intr_at = "none") => status # EXIT_OK

\* C16: in a port scan no probe is dispatched before the hostname has been
\* resolved; when resolution fails no probe is dispatched at all and the
\* invocation ends differently (in status or in output) from a completed
\* scan that found no open port, which ends with status 0 and prints nothing.
C16_ResolutionFailureReported ==
    command = "port-scan" =>
        /\ futures # <<>> => resolved = "ok"
        /\ resolved = "failed" =>
              /\ futures = <<>>
              /\ (pc = "done" /\ intr_at = "none") =>
                    (status # EXIT_OK \/ printed # <<>>)

\* the input parses and yields no target: an empty range or host list, a
\* --ports string that names no port, a --urls string that names no url
\* (a ping-sweep --network without --start/--end is a usage error instead)
YieldsNoTarget ==
    \E p \in {Prepare(command, args)} :
        /\ p.targets = <<>>
        /\ p.step # "raise"
        /\ ~(command = "ping-sweep" /\ p.step = "error")

\* C17: in every mode an invocation whose input yields an empty target set
\* ends with a status that is neither the success status nor the status of
\* a generic unexpected fault.
C17_NoWorkDistinguished ==
    (YieldsNoTarget /\ pc = "done" /\ intr_at = "none") =>
        /\ status # EXIT_OK
        /\ status # ExitStatus("Exception")

\* a response arrived
Responded(env) == env.ev = "response"

\* C18: for every HTTP probe outcome, accessible holds iff a response
\* arrived with status < 400, the status is 0 iff no response arrived, and
\* main prints exactly one line for the outcome: OK iff accessible, FAIL iff
\* a response arrived with status >= 400, ERROR iff no response arrived.
C18_HttpOutcomeAndLine ==
    (fn_name = "check_http_url" /\ fn_out # <<>> /\ fn_out[1].outcome.kind = "result") =>
        \E r \in {fn_out[1].outcome.value[1]}, lines \in {fn_out[1].lines} :
            /\ r[1] = ProbedUrl
            /\ r[2] <=> (Responded(fn_in) /\ fn_in.code < HTTP_ERROR_FLOOR)
            /\ r[3] = 0 <=> ~Responded(fn_in)
            /\ Responded(fn_in) => r[3] = fn_in.code
            /\ Len(lines) = 1
            /\ lines[1][1] = ProbedUrl
            /\ lines[1][2] \in {"OK", "FAIL", "ERROR"}
            /\ lines[1][2] = "OK" <=> r[2]
            /\ lines[1][2] = "FAIL" <=> (Responded(fn_in) /\ fn_in.code >= HTTP_ERROR_FLOOR)
            /\ lines[1][2] = "ERROR" <=> ~Responded(fn_in)

\* a response with status 400 was probed and its line printed
C18_Witness ==
    /\ fn_name = "check_http_url"
    /\ fn_in = Env("response", HTTP_ERROR_FLOOR)
    /\ fn_out # <<>>
    /\ fn_out[1].lines = <<<<ProbedUrl, "FAIL", HTTP_ERROR_FLOOR>>>>

\* C19: the result collection of a scan is modified by the collector thread
\* only: every step that changes it is an iteration of the collector's loop
\* and appends one entry, leaving the entries already there as they are.
C19_OnlyCollectorAppends ==
    [][results' # results =>
         /\ Collect
         /\ Len(results') = Len(results) + 1
         /\ SubSeq(results', 1, Len(results)) = results]_vars

\* two entries were collected while a worker was still running a probe
C19_Witness ==
    /\ Len(results) >= 2
    /\ running # {}
    /\ pc = "collect"

\* update_symlinks is between two of its steps, in a deploy that found a
\* current link
DeployingOverRelease ==
    /\ dpc \in {"unlink_previous", "link_previous", "unlink_current", "link_current"}
    /\ old_target # {}

\* C20: in every intermediate state of a deploy over an existing release the
\* current link exists and points to the old release or to the new one.
C20_CurrentAlwaysLinked ==
    DeployingOverRelease => current \in {old_target, new_release}

\* ----------------------------------------------------------- C21 .. C22
\* no script is running, and at least one has run
AtRest == dpc = "idle" /\ runs # <<>>

LastRun == runs[Len(runs)]

\* the run was one of the script and went through to its end
Completed(run, script) == run.script = script /\ run.state = "completed"

\* the run found both links, each naming a release directory that exists
FoundBothLinked(run) ==
    /\ TargetExists(run.current)
    /\ TargetExists(run.previous)

\* the last two runs were both completed rollbacks
RolledBackTwice ==
    /\ Len(runs) > 1
    /\ Completed(runs[1], "rollback")
    /\ Completed(runs[Len(runs)], "rollback")

\* the last two runs were a completed deploy, then a completed rollback
DeployedThenRolledBack ==
    /\ Len(runs) > 1
    /\ Completed(runs[1], "deploy")
    /\ Completed(runs[Len(runs)], "rollback")

\* C21: a completed rollback that found current and previous linked to
\* existing releases has swapped them, and a second completed rollback right
\* after it has put both links back where the first one found them.
C21_RollbackSwaps ==
    AtRest =>
        /\ Completed(LastRun, "rollback") /\ FoundBothLinked(LastRun)
              => current = LastRun.previous /\ previous = LastRun.current
        /\ RolledBackTwice /\ FoundBothLinked(runs[1])
              => current = runs[1].current /\ previous = runs[1].previous

\* two rollbacks in a row over two different releases
C21_Witness ==
    /\ AtRest
    /\ RolledBackTwice
    /\ FoundBothLinked(runs[1])
    /\ runs[1].current # runs[1].previous
    /\ current = runs[1].current
    /\ current = LastRun.previous

\* C22: after a completed deploy over a current link to R and a completed
\* rollback right after it, current names R again and previous names the
\* release that was deployed; a refused rollback leaves both links as found.
C22_DeployThenRollback ==
    AtRest =>
        /\ DeployedThenRolledBack /\ runs[1].current # {}
              => current = runs[1].current /\ previous = runs[1].release
        /\ LastRun.state = "refused"
              => current = LastRun.current /\ previous = LastRun.previous

\* a deploy over release R with another release as previous, rolled back
C22_Witness ==
    /\ AtRest
    /\ DeployedThenRolledBack
    /\ runs[1].current # {}
    /\ runs[1].previous \notin {{}, runs[1].current}
    /\ current = runs[1].current
    /\ previous = runs[1].release

\* a rollback was refused because the release previous names is gone
RefusedForMissingTarget ==
    /\ AtRest
    /\ LastRun.state = "refused"
    /\ previous # {}
    /\ previous \subseteq pruned

====
